---- MODULE Spec2Model ----
(***************************************************************************)
(* figma-desktop-cli: the capability registry (src/config constants), the  *)
(* interactive wrapper (src/cli/wrapper.ts) and the one-shot runner        *)
(* (src/commands/runner.ts) as one state machine.                          *)
(*                                                                         *)
(* JavaScript strings are sequences of one-character strings, so that      *)
(* trim(), split(' ') and JSON.parse are computed, not assumed.  A parsed  *)
(* JSON value is held as its canonical (whitespace-free) text; its first   *)
(* character tells its type.  null and undefined are the one-element       *)
(* sequences Null and Undefined, which no text equals.  Text the program   *)
(* builds from literals is a sequence of pieces, a literal being one piece.*)
(***************************************************************************)
EXTENDS Integers, Sequences, FiniteSets, TLC

\* ------------------------------------------------------------------ bounds
\* lines the readline interface delivers in one interactive session
MaxLines == 2
\* calls of the public connect() (discovery rounds) in one process
MaxRounds == 3

\* ------------------------------------------------------------------- state
VARIABLES
  mode,             \* "interactive" (wrapper) or "oneshot" (runner.runCommand)
  command, arg, flag, \* the parameters of the one-shot run
  rpc,              \* one-shot run: the await it is suspended at
  ipc,              \* wrapper: position of the caller in connect() / start()
  client,           \* wrapper.client: "null" or "live"
  rounds,           \* connect() calls so far
  COMMANDS, COMMANDS_INFO, COMMANDS_DETAIL, \* the exported registry arrays
  tools,            \* discoverTools: what the last resolved listTools() returned
  round,            \* how the last discoverTools ended: "none", "ok", "threw", "failed"
  rlClosed,         \* the readline interface was closed
  nlines,           \* 'line' events delivered so far
  pending,          \* callTool requests of line handlers not yet settled
  closePending,     \* the 'close' listener awaits client.close()
  log,              \* what the process did, in order
  exit              \* <<>> while the process runs, <<status>> once it exited

vars ==
  <<mode, command, arg, flag, rpc, ipc, client, rounds, COMMANDS, COMMANDS_INFO,
    COMMANDS_DETAIL, tools, round, rlClosed, nlines, pending, closePending, log, exit>>

\* --------------------------------------------------------- JavaScript values
Null == <<"#null">>
Undefined == <<"#undefined">>
SyntaxError == <<"#SyntaxError">>
EmptyObject == <<"{", "}">>
DQ == "\""

\* a value used as a condition: null, undefined and '' are falsy
Truthy(v) == v # Null /\ v # Undefined /\ v # <<>>

\* String.prototype.trim strips WhiteSpace and LineTerminator characters
IsJsWhitespace(c) == c \in {" ", "\t", "\n", "\r", "\f"}

RECURSIVE TrimStart(_)
TrimStart(s) ==
  IF s = <<>> THEN s
  ELSE IF IsJsWhitespace(Head(s)) THEN TrimStart(Tail(s)) ELSE s

RECURSIVE TrimEnd(_)
TrimEnd(s) ==
  IF s = <<>> THEN s
  ELSE IF IsJsWhitespace(s[Len(s)]) THEN TrimEnd(SubSeq(s, 1, Len(s) - 1)) ELSE s

Trim(s) == TrimEnd(TrimStart(s))

SetMin(S) == CHOOSE x \in S : \A y \in S : x <= y

\* String.prototype.split(' '): the pieces between single spaces, empty
\* pieces included
RECURSIVE Split(_)
Split(s) ==
  LET idx == {i \in 1..Len(s) : s[i] = " "}
  IN IF idx = {} THEN <<s>>
     ELSE <<SubSeq(s, 1, SetMin(idx) - 1)>> \o Split(SubSeq(s, SetMin(idx) + 1, Len(s)))

\* Array.prototype.join(sep)
RECURSIVE Join(_, _)
Join(parts, sep) ==
  IF parts = <<>> THEN <<>>
  ELSE IF Len(parts) = 1 THEN parts[1]
  ELSE parts[1] \o sep \o Join(Tail(parts), sep)

\* Array.prototype.filter(Boolean)
RECURSIVE FilterBoolean(_)
FilterBoolean(parts) ==
  IF parts = <<>> THEN <<>>
  ELSE IF Truthy(Head(parts)) THEN <<Head(parts)>> \o FilterBoolean(Tail(parts))
  ELSE FilterBoolean(Tail(parts))

\* ------------------------------------------------------------- JSON.parse
\* The JSON grammar for objects, arrays, strings without escapes,
\* non-negative integers and the three literals, over JSON's own whitespace
\* (form feed is whitespace for trim() and a syntax error here).
IsJsonWs(c) == c \in {" ", "\t", "\n", "\r"}
Digits == {"0", "1", "2", "3", "4", "5", "6", "7", "8", "9"}
Fail == [ok |-> FALSE, out |-> <<>>, pos |-> 0]
At(s, i) == IF i >= 1 /\ i <= Len(s) THEN s[i] ELSE ""

RECURSIVE SkipWs(_, _)
SkipWs(s, i) == IF IsJsonWs(At(s, i)) THEN SkipWs(s, i + 1) ELSE i

RECURSIVE DigitsEnd(_, _)
DigitsEnd(s, i) == IF At(s, i) \in Digits THEN DigitsEnd(s, i + 1) ELSE i

ParseNumber(s, i) ==
  LET j == IF s[i] = "0" THEN i + 1 ELSE DigitsEnd(s, i)
  IN [ok |-> TRUE, out |-> SubSeq(s, i, j - 1), pos |-> j]

ParseString(s, i) ==
  LET closers == {j \in (i + 1)..Len(s) : s[j] = DQ}
  IN IF closers = {} THEN Fail
     ELSE IF \E k \in (i + 1)..(SetMin(closers) - 1) : s[k] \in {"\t", "\n", "\r", "\f", "\\"}
     THEN Fail
     ELSE [ok |-> TRUE, out |-> SubSeq(s, i, SetMin(closers)), pos |-> SetMin(closers) + 1]

ParseLiteral(s, i, word) ==
  IF i + Len(word) - 1 <= Len(s) /\ SubSeq(s, i, i + Len(word) - 1) = word
  THEN [ok |-> TRUE, out |-> word, pos |-> i + Len(word)]
  ELSE Fail

RECURSIVE ParseValue(_, _)
RECURSIVE ParseElement(_, _)
RECURSIVE ParseElements(_, _, _)
RECURSIVE ParseMembers(_, _, _)

ParseElement(s, i) ==
  LET r == ParseValue(s, SkipWs(s, i))
  IN IF r.ok THEN [r EXCEPT !.pos = SkipWs(s, r.pos)] ELSE Fail

ParseElements(s, i, acc) ==
  LET r == ParseElement(s, i)
  IN IF ~r.ok THEN Fail
     ELSE IF At(s, r.pos) = "," THEN ParseElements(s, r.pos + 1, acc \o r.out \o <<",">>)
     ELSE IF At(s, r.pos) = "]"
     THEN [ok |-> TRUE, out |-> acc \o r.out \o <<"]">>, pos |-> r.pos + 1]
     ELSE Fail

ParseMembers(s, i, acc) ==
  LET k == SkipWs(s, i)
      key == IF At(s, k) = DQ THEN ParseString(s, k) ELSE Fail
      c == SkipWs(s, key.pos)
      r == ParseElement(s, c + 1)
  IN IF ~key.ok \/ At(s, c) # ":" THEN Fail
     ELSE IF ~r.ok THEN Fail
     ELSE IF At(s, r.pos) = ","
     THEN ParseMembers(s, r.pos + 1, acc \o key.out \o <<":">> \o r.out \o <<",">>)
     ELSE IF At(s, r.pos) = "}"
     THEN [ok |-> TRUE, out |-> acc \o key.out \o <<":">> \o r.out \o <<"}">>, pos |-> r.pos + 1]
     ELSE Fail

ParseValue(s, i) ==
  LET c == At(s, i)
  IN IF c = "{"
     THEN IF At(s, SkipWs(s, i + 1)) = "}"
          THEN [ok |-> TRUE, out |-> EmptyObject, pos |-> SkipWs(s, i + 1) + 1]
          ELSE ParseMembers(s, i + 1, <<"{">>)
     ELSE IF c = "["
     THEN IF At(s, SkipWs(s, i + 1)) = "]"
          THEN [ok |-> TRUE, out |-> <<"[", "]">>, pos |-> SkipWs(s, i + 1) + 1]
          ELSE ParseElements(s, i + 1, <<"[">>)
     ELSE IF c = DQ THEN ParseString(s, i)
     ELSE IF c \in Digits THEN ParseNumber(s, i)
     ELSE IF c = "t" THEN ParseLiteral(s, i, <<"t", "r", "u", "e">>)
     ELSE IF c = "f" THEN ParseLiteral(s, i, <<"f", "a", "l", "s", "e">>)
     ELSE IF c = "n" THEN ParseLiteral(s, i, <<"n", "u", "l", "l">>)
     ELSE Fail

\* JSON.parse(text): the value, or SyntaxError when it throws
JSONparse(s) ==
  LET r == ParseElement(s, 1)
  IN IF r.ok /\ r.pos = Len(s) + 1 THEN r.out ELSE SyntaxError

\* a parsed value that is a JSON object (not an array, a primitive or null)
IsJsonObject(v) == v # <<>> /\ v[1] = "{"

\* ------------------------------------------------- provider tool descriptions
\* A tool as listTools() returns it.  description is a string or Undefined.
\* inputSchema: defined says whether the field is present; hasProperties is
\* 'properties' in inputSchema; properties are the entries of the map in key
\* order, a value being an object (type, description: string or Undefined) or
\* null; required is the list after `schema.required || []`.
NoSchema == [defined |-> FALSE, hasProperties |-> FALSE, properties |-> <<>>, required |-> <<>>]
SchemaWithoutProperties ==
  [defined |-> TRUE, hasProperties |-> FALSE, properties |-> <<>>, required |-> <<>>]
SchemaOf(props, req) ==
  [defined |-> TRUE, hasProperties |-> TRUE, properties |-> props, required |-> req]
Prop(k, t, d) == [key |-> k, isNull |-> FALSE, type |-> t, description |-> d]
NullProp(k) == [key |-> k, isNull |-> TRUE, type |-> Undefined, description |-> Undefined]

GetName == <<"g", "e", "t">>
NavName == <<"n", "a", "v">>
OptName == <<"o", "p", "t">>
BadName == <<"b", "a", "d">>

ToolGet == [name |-> GetName, description |-> Undefined, inputSchema |-> NoSchema]
ToolNav ==
  [name |-> NavName, description |-> <<"Navigates to a page">>,
   inputSchema |-> SchemaOf(<<Prop(<<"p">>, <<"string">>, <<"The page">>)>>, <<<<"p">>>>)]
ToolOpt ==
  [name |-> OptName, description |-> <<>>,
   inputSchema |-> SchemaOf(<<Prop(<<"a">>, Undefined, Undefined),
                              Prop(<<"b">>, <<"number">>, Undefined)>>, <<<<"b">>>>)]
ToolPlain == [name |-> OptName, description |-> <<"Plain">>, inputSchema |-> SchemaWithoutProperties]
ToolEmpty == [name |-> GetName, description |-> <<"Empty">>, inputSchema |-> SchemaOf(<<>>, <<>>)]
\* a property whose value is null: reading value.type throws
ToolBad ==
  [name |-> BadName, description |-> <<"Bad">>,
   inputSchema |-> SchemaOf(<<NullProp(<<"x">>)>>, <<>>)]

\* the lists listTools() returns in an interactive session
SessionToolLists ==
  { <<>>, <<ToolGet, ToolNav>>, <<ToolNav, ToolBad, ToolGet>> }

\* the lists listTools() returns when connect() is called repeatedly
ToolLists ==
  SessionToolLists \cup { <<ToolOpt>>, <<ToolPlain, ToolEmpty>> }

\* ------------------------------------------------- discoverTools: one entry
\* COMMANDS_INFO entry: tool.description || 'No description available'
InfoOf(tool) ==
  IF Truthy(tool.description) THEN tool.description ELSE <<"No description available">>

\* required.includes(key)
Includes(list, k) == \E i \in 1..Len(list) : list[i] = k

\* a parameter line that prints value.type as it is, without `|| 'any'`
ParamLineWithoutDefault(p, required) ==
  <<"- ">> \o p.key \o <<" ">>
  \o <<(IF Includes(required, p.key) THEN "(required)" ELSE "(optional)")>>
  \o <<": ">> \o (IF p.type = Undefined THEN <<"undefined">> ELSE p.type)
  \o <<" - ">> \o (IF Truthy(p.description) THEN p.description ELSE <<>>)
  \o <<"\n">>

\* one line of the Parameters section
ParamLine(p, required) ==
  <<"- ">> \o p.key \o <<" ">>
  \o <<(IF Includes(required, p.key) THEN "(required)" ELSE "(optional)")>>
  \o <<": ">> \o (IF Truthy(p.type) THEN p.type ELSE <<"any">>)
  \o <<" - ">> \o (IF Truthy(p.description) THEN p.description ELSE <<>>)
  \o <<"\n">>

RECURSIVE ParamLines(_, _)
ParamLines(props, required) ==
  IF props = <<>> THEN <<>>
  ELSE ParamLine(Head(props), required) \o ParamLines(Tail(props), required)

\* JSON.stringify of the object mapping every key to '<key>'
RECURSIVE ExampleMembers(_)
ExampleMembers(props) ==
  IF props = <<>> THEN <<>>
  ELSE <<DQ>> \o Head(props).key \o <<DQ, ":", DQ, "<">> \o Head(props).key \o <<">", DQ>>
       \o (IF Len(props) > 1 THEN <<",">> ELSE <<>>) \o ExampleMembers(Tail(props))

ExampleOf(tool) ==
  IF tool.inputSchema.defined /\ tool.inputSchema.hasProperties
  THEN <<"{">> \o ExampleMembers(tool.inputSchema.properties) \o <<"}">>
  ELSE <<"{", "}">>

\* the Object.entries loop throws when a property value is null
DetailThrows(tool) ==
  /\ tool.inputSchema.defined /\ tool.inputSchema.hasProperties
  /\ \E i \in 1..Len(tool.inputSchema.properties) : tool.inputSchema.properties[i].isNull

\* COMMANDS_DETAIL entry of a tool whose build does not throw
DetailOf(tool) ==
  <<"\nParameters:\n">>
  \o (IF tool.inputSchema.defined /\ tool.inputSchema.hasProperties
      THEN ParamLines(tool.inputSchema.properties, tool.inputSchema.required)
      ELSE <<"No parameters required\n">>)
  \o <<"\nExample:\n">> \o tool.name \o <<" ">> \o ExampleOf(tool) \o <<"\n">>

\* the for-loop of discoverTools over the remaining tools: the registry it
\* leaves, and whether it threw
RECURSIVE Populate(_, _)
Populate(list, reg) ==
  IF list = <<>> THEN reg
  ELSE LET tool == Head(list)
           pushed == [reg EXCEPT !.names = Append(@, tool.name),
                                 !.info = Append(@, InfoOf(tool))]
       IN IF DetailThrows(tool) THEN [pushed EXCEPT !.threw = TRUE]
          ELSE Populate(Tail(list), [pushed EXCEPT !.detail = Append(@, DetailOf(tool))])

\* discoverTools without the three `length = 0` lines
DiscoveredWithoutClearing(list) ==
  Populate(list, [names |-> COMMANDS, info |-> COMMANDS_INFO, detail |-> COMMANDS_DETAIL,
                  threw |-> FALSE])

\* the body of discoverTools after listTools() resolved with `list`: the
\* arrays are emptied, then filled
Discovered(list) ==
  Populate(list, [names |-> <<>>, info |-> <<>>, detail |-> <<>>, threw |-> FALSE])

\* ------------------------------------------------------------ state tuples
registry == <<COMMANDS, COMMANDS_INFO, COMMANDS_DETAIL>>
runnerVars == <<command, arg, flag, rpc>>
connVars == <<ipc, client, rounds, tools, round>>
loopVars == <<rlClosed, nlines, pending, closePending>>

\* an entry of log: id is the number of the line it belongs to (0: none)
Ev(e, n, a, i) == [ev |-> e, name |-> n, args |-> a, id |-> i]
Did(e) == Ev(e, <<>>, <<>>, 0)
\* console.error of the three-item remediation checklist
Checklist == Did("checklist")

\* --------------------------------------------------------------- the inputs
CommandNames == {GetName, NavName}
Flags == {Null, <<"-", "-", "f">>}
\* argument strings of the one-shot run
RunnerArgs ==
  { Null, <<>>, <<" ">>, <<" ", " ", " ">>, <<"\t">>,
    <<"{", "}">>, <<" ", "{", " ", "}", " ">>,
    <<"{", DQ, "p", DQ, ":", "1", "}">>,
    <<"{", DQ, "p", DQ, ":", " ", DQ, "a", " ", "b", DQ, "}">>,
    <<"1">>, <<DQ, "a", DQ>>, <<"[", "1", "]">>, <<"t", "r", "u", "e">>,
    <<"n", "u", "l", "l">>,
    <<"n", "o", "t", " ", "j", "s", "o", "n">>, <<"{">>, <<"\f", "{", "}">> }

Init ==
  /\ mode \in {"interactive", "oneshot"}
  /\ IF mode = "oneshot"
     THEN command \in CommandNames /\ arg \in RunnerArgs /\ flag \in Flags
     ELSE command = <<>> /\ arg = Null /\ flag = Null
  /\ rpc = "start"
  /\ ipc = "init"
  /\ client = "null"
  /\ rounds = 0
  /\ COMMANDS = <<>> /\ COMMANDS_INFO = <<>> /\ COMMANDS_DETAIL = <<>>
  /\ tools = <<>>
  /\ round = "none"
  /\ rlClosed = FALSE
  /\ nlines = 0
  /\ pending = {}
  /\ closePending = FALSE
  /\ log = <<>>
  /\ exit = <<>>

\* ------------------------------------------------- runner.ts: runCommand
\* the argument test without its trim() half: arg ? JSON.parse(arg) : {}
RunnerArgObjWithoutTrim(a) == IF Truthy(a) THEN JSONparse(a) ELSE EmptyObject

\* arg && arg.trim() !== '' ? JSON.parse(arg) : {}
RunnerArgObj(a) == IF Truthy(a) /\ Trim(a) # <<>> THEN JSONparse(a) ELSE EmptyObject

\* [command, arg, flag].filter(Boolean).join(' ')
RunnerBanner(c, a, f) == Join(FilterBoolean(<<c, a, f>>), <<" ">>)

\* a request that carries the flag when one is given
RunnerRequestWithFlag(c, a, f) ==
  Ev("callTool", c, IF Truthy(f) THEN <<"{", DQ>> \o f \o <<DQ, "}">> ELSE RunnerArgObj(a), 0)

\* the request of client.callTool({name: command, arguments: argObj}, ...)
RunnerRequest(c, a, f) == Ev("callTool", c, RunnerArgObj(a), 0)

\* the catch block: report, checklist, process.exit(1)
RunnerCatch == <<Did("error"), Checklist, Did("exit")>>

\* the session closed before the result is printed
RunnerAfterCallCloseFirst == <<Did("result"), Did("close"), Did("print")>>

\* what runs once callTool resolved, up to `await client.close()`
RunnerAfterCall == <<Did("result"), Did("print"), Did("close")>>

Runner == mode = "oneshot" /\ exit = <<>>

\* up to `await client.connect(transport)`
RunnerStart ==
  /\ Runner /\ rpc = "start"
  /\ rpc' = "connecting"
  /\ log' = log \o <<Ev("log", <<>>, RunnerBanner(command, arg, flag), 0), Did("connect")>>
  /\ UNCHANGED <<mode, command, arg, flag, connVars, registry, loopVars, exit>>

\* connect resolved: parse the argument, issue callTool
RunnerConnected ==
  /\ Runner /\ rpc = "connecting"
  /\ IF RunnerArgObj(arg) = SyntaxError
     THEN /\ rpc' = "exited"
          /\ log' = log \o <<Did("connected")>> \o RunnerCatch
          /\ exit' = <<1>>
     ELSE /\ rpc' = "calling"
          /\ log' = log \o <<Did("connected"), RunnerRequest(command, arg, flag)>>
          /\ exit' = exit
  /\ UNCHANGED <<mode, command, arg, flag, connVars, registry, loopVars>>

\* connect rejected
RunnerConnectFailed ==
  /\ Runner /\ rpc = "connecting"
  /\ rpc' = "exited"
  /\ log' = log \o <<Did("connect-failed")>> \o RunnerCatch
  /\ exit' = <<1>>
  /\ UNCHANGED <<mode, command, arg, flag, connVars, registry, loopVars>>

\* callTool resolved: print the result, up to `await client.close()`
RunnerCalled ==
  /\ Runner /\ rpc = "calling"
  /\ rpc' = "closing"
  /\ log' = log \o RunnerAfterCall
  /\ UNCHANGED <<mode, command, arg, flag, connVars, registry, loopVars, exit>>

\* callTool rejected
RunnerCallFailed ==
  /\ Runner /\ rpc = "calling"
  /\ rpc' = "exited"
  /\ log' = log \o <<Did("call-failed")>> \o RunnerCatch
  /\ exit' = <<1>>
  /\ UNCHANGED <<mode, command, arg, flag, connVars, registry, loopVars>>

\* close resolved: process.exit(0)
RunnerClosed ==
  /\ Runner /\ rpc = "closing"
  /\ rpc' = "exited"
  /\ log' = log \o <<Did("closed"), Did("exit")>>
  /\ exit' = <<0>>
  /\ UNCHANGED <<mode, command, arg, flag, connVars, registry, loopVars>>

\* close rejected: the same catch block
RunnerCloseFailed ==
  /\ Runner /\ rpc = "closing"
  /\ rpc' = "exited"
  /\ log' = log \o <<Did("close-failed")>> \o RunnerCatch
  /\ exit' = <<1>>
  /\ UNCHANGED <<mode, command, arg, flag, connVars, registry, loopVars>>

RunnerNext ==
  \/ RunnerStart
  \/ RunnerConnected
  \/ RunnerConnectFailed
  \/ RunnerCalled
  \/ RunnerCallFailed
  \/ RunnerClosed
  \/ RunnerCloseFailed

\* ------------------------------------------------------ wrapper.ts: connect
Wrapper == mode = "interactive" /\ exit = <<>>

\* a printHelp() that joins the names whether or not there are any
PrintHelpWithoutPlaceholder(names) == Ev("help", <<>>, Join(names, <<", ">>), 0)

\* printHelp(), for the registry names it reads
PrintHelp(names) ==
  Ev("help", <<>>,
     IF Len(names) > 0 THEN Join(names, <<", ">>)
     ELSE <<"No commands available (not connected)">>, 0)

\* connect() up to `await this.client.connect(transport)`
ConnectCall ==
  /\ client' = "live"
  /\ ipc' = "connecting"
  /\ rounds' = rounds + 1
  /\ log' = log \o <<Did("connect")>>
  /\ UNCHANGED <<mode, runnerVars, registry, tools, round, loopVars, exit>>

\* the entry point calls connect()
Connect == Wrapper /\ ipc = "init" /\ ConnectCall

\* connect() is public: a caller calls it again after it returned
Reconnect == Wrapper /\ ipc = "connected" /\ rounds < MaxRounds /\ ConnectCall

\* a catch block of connect() that reports and returns instead of exiting
ConnectFailedNonFatal ==
  /\ Wrapper /\ ipc = "connecting"
  /\ ipc' = "connected"
  /\ log' = log \o <<Did("connect-failed"), Did("error"), Checklist>>
  /\ UNCHANGED <<mode, runnerVars, client, rounds, registry, tools, round, loopVars, exit>>

\* the handshake rejected: the catch block of connect()
ConnectFailed ==
  /\ Wrapper /\ ipc = "connecting"
  /\ ipc' = "failed"
  /\ log' = log \o <<Did("connect-failed"), Did("error"), Checklist, Did("exit")>>
  /\ exit' = <<1>>
  /\ UNCHANGED <<mode, runnerVars, client, rounds, registry, tools, round, loopVars>>

\* the handshake resolved: discoverTools up to `await this.client.listTools()`
Connected ==
  /\ Wrapper /\ ipc = "connecting"
  /\ ipc' = "listing"
  /\ log' = log \o <<Did("connected"), Did("listTools")>>
  /\ UNCHANGED <<mode, runnerVars, client, rounds, registry, tools, round, loopVars, exit>>

\* listTools() resolved with the list L: the rest of discoverTools, then
\* printHelp() and the return of connect()
ListTools(L) ==
  /\ Wrapper /\ ipc = "listing"
  /\ tools' = L
  /\ COMMANDS' = Discovered(L).names
  /\ COMMANDS_INFO' = Discovered(L).info
  /\ COMMANDS_DETAIL' = Discovered(L).detail
  /\ round' = IF Discovered(L).threw THEN "threw" ELSE "ok"
  /\ log' = log \o <<(IF Discovered(L).threw THEN Did("warn")
                      ELSE Ev("discovered", <<>>, <<>>, Len(L))),
                     PrintHelp(Discovered(L).names)>>
  /\ ipc' = "connected"
  /\ UNCHANGED <<mode, runnerVars, client, rounds, loopVars, exit>>

\* listTools() rejected: the catch block warns; printHelp(); connect() returns
ListToolsFailed ==
  /\ Wrapper /\ ipc = "listing"
  /\ round' = "failed"
  /\ log' = log \o <<Did("warn"), PrintHelp(COMMANDS)>>
  /\ ipc' = "connected"
  /\ UNCHANGED <<mode, runnerVars, client, rounds, registry, tools, loopVars, exit>>

\* ------------------------------------------- wrapper.ts: the interactive loop
\* the lines readline delivers
Lines ==
  { <<" ", "\t">>,
    <<"e", "x", "i", "t">>,
    <<"h", "e", "l", "p">>,
    <<"c", "o", "m", "m", "a", "n", "d", "s">>,
    GetName \o <<" ", "-", "h">>,
    GetName,
    GetName \o <<" ", " ", "{", "}">>,
    GetName \o <<" ", "\t", " ", "{", "}">>,
    <<" ">> \o NavName \o <<" ", "{", DQ, "p", DQ, ":", "1", "}", " ">>,
    NavName \o <<" ", "{", DQ, "p", DQ, ":", " ", "1", "}">>,
    GetName \o <<" ", "1">> }

\* this.rl.prompt()
Prompt == Did("prompt")

\* printAvailableCommands() and printCommandDetail(name) of commands/helpers:
\* they print from the registry and change nothing
PrintAvailableCommands == Did("commands")

\* COMMANDS.indexOf(name), 1-based, for a name the list holds
IndexOf(list, k) == SetMin({i \in 1..Len(list) : list[i] = k})

\* printCommandDetail(name): the rendered help of a name the registry holds
\* (undefined where COMMANDS_DETAIL has no entry at its index); for any other
\* name a notice and the listing of the available commands
PrintCommandDetail(name) ==
  IF Trim(name) = <<>> THEN <<Ev("no-name", name, <<>>, 0), PrintAvailableCommands>>
  ELSE IF Includes(COMMANDS, name)
  THEN <<Ev("detail", name,
            IF IndexOf(COMMANDS, name) <= Len(COMMANDS_DETAIL)
            THEN COMMANDS_DETAIL[IndexOf(COMMANDS, name)] ELSE Undefined, 0)>>
  ELSE <<Ev("unknown", name, <<>>, 0), PrintAvailableCommands>>

\* a parse that falls back to {} when JSON.parse throws
WrapperArgObjLenient(a) ==
  IF Truthy(a) /\ Trim(a) # <<>>
  THEN (IF JSONparse(a) = SyntaxError THEN EmptyObject ELSE JSONparse(a))
  ELSE EmptyObject

\* arg && arg.trim() !== '' ? JSON.parse(arg) : {}
WrapperArgObj(a) == IF Truthy(a) /\ Trim(a) # <<>> THEN JSONparse(a) ELSE EmptyObject

\* args[0] of parts.slice(1)
FirstArg(parts) == IF Len(parts) > 1 THEN parts[2] ELSE Undefined

\* a runCommand that looks the command up in the registry first
WrapperRunCommandKnownOnly(c, a, id) ==
  IF client = "null"
  THEN [out |-> <<Did("not-available"), Prompt>>, calls |-> FALSE, closes |-> FALSE,
        name |-> c, args |-> <<>>]
  ELSE IF ~Includes(COMMANDS, c)
  THEN [out |-> <<Ev("unknown", c, <<>>, 0), Prompt>>, calls |-> FALSE, closes |-> FALSE,
        name |-> c, args |-> <<>>]
  ELSE IF WrapperArgObj(a) = SyntaxError
  THEN [out |-> <<Ev("log", <<>>, Join(FilterBoolean(<<c, a>>), <<" ">>), id),
                  Ev("error", <<>>, <<>>, id), Prompt>>,
        calls |-> FALSE, closes |-> FALSE, name |-> c, args |-> <<>>]
  ELSE [out |-> <<Ev("log", <<>>, Join(FilterBoolean(<<c, a>>), <<" ">>), id),
                  Ev("callTool", c, WrapperArgObj(a), id)>>,
        calls |-> TRUE, closes |-> FALSE, name |-> c, args |-> WrapperArgObj(a)]

\* a runCommand whose rl.prompt() is the last statement of the try block
WrapperRunCommandPromptInTry(c, a, id) ==
  IF client = "null"
  THEN [out |-> <<Did("not-available"), Prompt>>, calls |-> FALSE, closes |-> FALSE,
        name |-> c, args |-> <<>>]
  ELSE IF WrapperArgObj(a) = SyntaxError
  THEN [out |-> <<Ev("log", <<>>, Join(FilterBoolean(<<c, a>>), <<" ">>), id),
                  Ev("error", <<>>, <<>>, id)>>,
        calls |-> FALSE, closes |-> FALSE, name |-> c, args |-> <<>>]
  ELSE [out |-> <<Ev("log", <<>>, Join(FilterBoolean(<<c, a>>), <<" ">>), id),
                  Ev("callTool", c, WrapperArgObj(a), id)>>,
        calls |-> TRUE, closes |-> FALSE, name |-> c, args |-> WrapperArgObj(a)]

\* a dispatcher that turns a command away while another one is in flight
WrapperRunCommandWhenIdle(c, a, id) ==
  IF client = "null" \/ pending # {}
  THEN [out |-> <<Did("not-available"), Prompt>>, calls |-> FALSE, closes |-> FALSE,
        name |-> c, args |-> <<>>]
  ELSE IF WrapperArgObj(a) = SyntaxError
  THEN [out |-> <<Ev("log", <<>>, Join(FilterBoolean(<<c, a>>), <<" ">>), id),
                  Ev("error", <<>>, <<>>, id), Prompt>>,
        calls |-> FALSE, closes |-> FALSE, name |-> c, args |-> <<>>]
  ELSE [out |-> <<Ev("log", <<>>, Join(FilterBoolean(<<c, a>>), <<" ">>), id),
                  Ev("callTool", c, WrapperArgObj(a), id)>>,
        calls |-> TRUE, closes |-> FALSE, name |-> c, args |-> WrapperArgObj(a)]

\* runCommand(command, arg) up to its first await: what it prints, and the
\* request it issues (calls) if it gets that far
WrapperRunCommand(c, a, id) ==
  IF client = "null"
  THEN [out |-> <<Did("not-available"), Prompt>>, calls |-> FALSE, closes |-> FALSE,
        name |-> c, args |-> <<>>]
  ELSE IF WrapperArgObj(a) = SyntaxError
  THEN [out |-> <<Ev("log", <<>>, Join(FilterBoolean(<<c, a>>), <<" ">>), id),
                  Ev("error", <<>>, <<>>, id), Prompt>>,
        calls |-> FALSE, closes |-> FALSE, name |-> c, args |-> <<>>]
  ELSE [out |-> <<Ev("log", <<>>, Join(FilterBoolean(<<c, a>>), <<" ">>), id),
                  Ev("callTool", c, WrapperArgObj(a), id)>>,
        calls |-> TRUE, closes |-> FALSE, name |-> c, args |-> WrapperArgObj(a)]

Quiet(out) == [out |-> out, calls |-> FALSE, closes |-> FALSE, name |-> <<>>, args |-> <<>>]

\* a handleCommand that knows 'help' and not '?'
HandleCommandWithoutQuestionMark(input, id) ==
  LET trimmed == Trim(input)
      parts == Split(trimmed)
  IN IF trimmed = <<>> THEN Quiet(<<Prompt>>)
     ELSE IF trimmed \in {<<"e", "x", "i", "t">>, <<"q", "u", "i", "t">>, <<"q">>}
     THEN [Quiet(<<>>) EXCEPT !.closes = TRUE]
     ELSE IF trimmed = <<"h", "e", "l", "p">>
     THEN Quiet(<<PrintHelp(COMMANDS), Prompt>>)
     ELSE IF trimmed = <<"c", "o", "m", "m", "a", "n", "d", "s">>
     THEN Quiet(<<PrintAvailableCommands, Prompt>>)
     ELSE IF trimmed = <<"c", "l", "e", "a", "r">>
     THEN Quiet(<<Did("clear"), Prompt>>)
     ELSE IF FirstArg(parts) = <<"-", "h">>
     THEN Quiet(PrintCommandDetail(parts[1]) \o <<Prompt>>)
     ELSE WrapperRunCommand(parts[1], FirstArg(parts), id)

\* a handleCommand without the `args[0] === '-h'` test
HandleCommandWithoutHelpFlag(input, id) ==
  LET trimmed == Trim(input)
      parts == Split(trimmed)
  IN IF trimmed = <<>> THEN Quiet(<<Prompt>>)
     ELSE IF trimmed \in {<<"e", "x", "i", "t">>, <<"q", "u", "i", "t">>, <<"q">>}
     THEN [Quiet(<<>>) EXCEPT !.closes = TRUE]
     ELSE IF trimmed \in {<<"h", "e", "l", "p">>, <<"?">>}
     THEN Quiet(<<PrintHelp(COMMANDS), Prompt>>)
     ELSE IF trimmed = <<"c", "o", "m", "m", "a", "n", "d", "s">>
     THEN Quiet(<<PrintAvailableCommands, Prompt>>)
     ELSE IF trimmed = <<"c", "l", "e", "a", "r">>
     THEN Quiet(<<Did("clear"), Prompt>>)
     ELSE WrapperRunCommand(parts[1], FirstArg(parts), id)

\* handleCommand(input) up to its first await
HandleCommand(input, id) ==
  LET trimmed == Trim(input)
      parts == Split(trimmed)
  IN IF trimmed = <<>> THEN Quiet(<<Prompt>>)
     ELSE IF trimmed \in {<<"e", "x", "i", "t">>, <<"q", "u", "i", "t">>, <<"q">>}
     THEN [Quiet(<<>>) EXCEPT !.closes = TRUE]
     ELSE IF trimmed \in {<<"h", "e", "l", "p">>, <<"?">>}
     THEN Quiet(<<PrintHelp(COMMANDS), Prompt>>)
     ELSE IF trimmed = <<"c", "o", "m", "m", "a", "n", "d", "s">>
     THEN Quiet(<<PrintAvailableCommands, Prompt>>)
     ELSE IF trimmed = <<"c", "l", "e", "a", "r">>
     THEN Quiet(<<Did("clear"), Prompt>>)
     ELSE IF FirstArg(parts) = <<"-", "h">>
     THEN Quiet(PrintCommandDetail(parts[1]) \o <<Prompt>>)
     ELSE WrapperRunCommand(parts[1], FirstArg(parts), id)

\* the 'close' listener up to `await this.client?.close()`; with no client
\* it goes on to process.exit(0)
CloseListener ==
  IF client = "live" THEN <<Did("close")>> ELSE <<Did("exit")>>

\* start(): the first prompt and the listeners
Start ==
  /\ Wrapper /\ ipc = "connected"
  /\ ipc' = "started"
  /\ log' = log \o <<Prompt>>
  /\ UNCHANGED <<mode, runnerVars, client, rounds, registry, tools, round, loopVars, exit>>

\* a 'line' event: the listener runs handleCommand up to its first await;
\* disconnect() closes the readline interface, which runs the 'close' listener
Line(l) ==
  /\ Wrapper /\ ipc = "started" /\ ~rlClosed /\ nlines < MaxLines
  /\ nlines' = nlines + 1
  /\ LET h == HandleCommand(l, nlines + 1)
     IN /\ log' = log \o <<Ev("line", <<>>, l, nlines + 1)>> \o h.out
                      \o (IF h.closes THEN CloseListener ELSE <<>>)
        /\ pending' = IF h.calls
                      THEN pending \cup {[id |-> nlines + 1, name |-> h.name, args |-> h.args]}
                      ELSE pending
        /\ rlClosed' = h.closes
        /\ closePending' = (h.closes /\ client = "live")
        /\ exit' = IF h.closes /\ client # "live" THEN <<0>> ELSE exit
  /\ UNCHANGED <<mode, runnerVars, connVars, registry>>

\* rl.prompt() of a handler that resumes: on a closed interface it either
\* writes the prompt or throws ERR_USE_AFTER_CLOSE, by the Node.js release;
\* the throw rejects the listener's promise and ends the process with 1
Resume(p, e, throws) ==
  /\ Wrapper /\ p \in pending
  /\ pending' = pending \ {p}
  /\ IF throws
     THEN /\ rlClosed
          /\ log' = log \o <<Ev(e, <<>>, <<>>, p.id), Did("crash")>>
          /\ exit' = <<1>>
     ELSE /\ log' = log \o <<Ev(e, <<>>, <<>>, p.id), Prompt>>
          /\ exit' = exit
  /\ UNCHANGED <<mode, runnerVars, connVars, registry, rlClosed, nlines, closePending>>

\* callTool resolved: print the result, prompt
ToolResult(p) == Resume(p, "result", FALSE)
ToolResultAfterClose(p) == Resume(p, "result", TRUE)

\* callTool rejected: report the error, prompt
ToolError(p) == Resume(p, "error", FALSE)
ToolErrorAfterClose(p) == Resume(p, "error", TRUE)

\* end of input: readline closes itself and runs the 'close' listener
EndOfInput ==
  /\ Wrapper /\ ipc = "started" /\ ~rlClosed
  /\ rlClosed' = TRUE
  /\ closePending' = (client = "live")
  /\ log' = log \o <<Did("eof")>> \o CloseListener
  /\ exit' = IF client = "live" THEN exit ELSE <<0>>
  /\ UNCHANGED <<mode, runnerVars, connVars, registry, nlines, pending>>

\* a gracefulShutdown that releases the session itself, whatever the 'close'
\* listener did
SignalReleasingAgain ==
  /\ Wrapper /\ ipc = "started"
  /\ rlClosed' = TRUE
  /\ closePending' = (client = "live")
  /\ log' = log \o <<Did("signal")>>
                \o (IF client = "live" THEN <<Did("close")>> ELSE <<>>)
                \o <<Did("exit")>>
  /\ exit' = <<0>>
  /\ UNCHANGED <<mode, runnerVars, connVars, registry, nlines, pending>>

\* a gracefulShutdown that leaves process.exit(0) to the 'close' listener
\* while the session is being released
SignalAwaitingRelease ==
  /\ Wrapper /\ ipc = "started"
  /\ rlClosed' = TRUE
  /\ closePending' = (closePending \/ (~rlClosed /\ client = "live"))
  /\ log' = log \o <<Did("signal")>>
                \o (IF ~rlClosed /\ client = "live" THEN <<Did("close")>> ELSE <<>>)
                \o (IF closePending' THEN <<>> ELSE <<Did("exit")>>)
  /\ exit' = IF closePending' THEN exit ELSE <<0>>
  /\ UNCHANGED <<mode, runnerVars, connVars, registry, nlines, pending>>

\* SIGINT or SIGTERM: gracefulShutdown awaits disconnect() (rl.close(), which
\* runs the 'close' listener if the interface was open) and then exits with 0
Signal ==
  /\ Wrapper /\ ipc = "started"
  /\ rlClosed' = TRUE
  /\ closePending' = (closePending \/ (~rlClosed /\ client = "live"))
  /\ log' = log \o <<Did("signal")>>
                \o (IF ~rlClosed /\ client = "live" THEN <<Did("close")>> ELSE <<>>)
                \o <<Did("exit")>>
  /\ exit' = <<0>>
  /\ UNCHANGED <<mode, runnerVars, connVars, registry, nlines, pending>>

\* client.close() resolved: the 'close' listener exits with 0
CloseDone ==
  /\ Wrapper /\ closePending
  /\ closePending' = FALSE
  /\ log' = log \o <<Did("closed"), Did("exit")>>
  /\ exit' = <<0>>
  /\ UNCHANGED <<mode, runnerVars, connVars, registry, rlClosed, nlines, pending>>

\* client.close() rejected: the 'close' listener's promise rejects, unhandled
CloseFailed ==
  /\ Wrapper /\ closePending
  /\ closePending' = FALSE
  /\ log' = log \o <<Did("close-failed"), Did("crash")>>
  /\ exit' = <<1>>
  /\ UNCHANGED <<mode, runnerVars, connVars, registry, rlClosed, nlines, pending>>

WrapperNext ==
  \/ Connect
  \/ ConnectFailed
  \/ Connected
  \/ \E L \in SessionToolLists : ListTools(L)
  \/ ListToolsFailed
  \/ Start
  \/ \E l \in Lines : Line(l)
  \/ \E p \in pending : ToolResult(p)
  \/ \E p \in pending : ToolResultAfterClose(p)
  \/ \E p \in pending : ToolError(p)
  \/ \E p \in pending : ToolErrorAfterClose(p)
  \/ EndOfInput
  \/ Signal
  \/ CloseDone
  \/ CloseFailed

Next == RunnerNext \/ WrapperNext

Spec == Init /\ [][Next]_vars

\* the wrapper whose connect() is called up to MaxRounds times
InitRounds == Init /\ mode = "interactive"

NextRounds ==
  \/ Connect
  \/ Reconnect
  \/ ConnectFailed
  \/ Connected
  \/ \E L \in ToolLists : ListTools(L)
  \/ ListToolsFailed

SpecRounds == InitRounds /\ [][NextRounds]_vars


\* ------------------------------------------- input that arrives in one chunk
\* rl.close() does not stop the 'line' events of the chunk being split: when
\* the input is a pipe, the lines that arrived together with an exit command
\* are still delivered, in the same turn, after the 'close' listener ran.
\* The turn is still running when nothing but line handlers wrote to the log
\* since the exit command.
ChunkOpen ==
  \E x \in 1..Len(log) :
    /\ log[x].ev = "line" /\ Trim(log[x].args) \in {<<"e", "x", "i", "t">>, <<"q", "u", "i", "t">>, <<"q">>}
    /\ Len(log) > x /\ log[x + 1].ev = "close"
    /\ \A i \in (x + 2)..Len(log) :
         /\ log[i].ev \in {"line", "log", "callTool", "error", "prompt", "help", "commands",
                           "detail", "unknown", "no-name", "clear"}
         /\ log[i].ev = "error" => log[i - 1].ev = "log"

\* a 'line' event after the interface was closed: the listener runs
\* handleCommand as before; disconnect() finds the interface closed and does
\* nothing; rl.prompt() on the closed interface writes the prompt or throws,
\* by the Node.js release, and the throw ends the process with 1
LineAfterClose(l, throws) ==
  /\ Wrapper /\ ipc = "started" /\ rlClosed /\ closePending /\ nlines < MaxLines
  /\ ChunkOpen
  /\ nlines' = nlines + 1
  /\ LET h == HandleCommand(l, nlines + 1)
         prompts == h.out # <<>> /\ h.out[Len(h.out)] = Prompt
     IN /\ throws => prompts
        /\ log' = log \o <<Ev("line", <<>>, l, nlines + 1)>>
                      \o (IF throws
                          THEN SubSeq(h.out, 1, Len(h.out) - 1) \o <<Did("crash")>>
                          ELSE h.out)
        /\ pending' = IF h.calls
                      THEN pending \cup {[id |-> nlines + 1, name |-> h.name, args |-> h.args]}
                      ELSE pending
        /\ exit' = IF throws THEN <<1>> ELSE exit
  /\ UNCHANGED <<mode, runnerVars, connVars, registry, rlClosed, closePending>>

\* the wrapper fed from a pipe
NextPiped ==
  \/ WrapperNext
  \/ \E l \in Lines : \E throws \in BOOLEAN : LineAfterClose(l, throws)

SpecPiped == InitRounds /\ [][NextPiped]_vars

\* ------------------------------------------------------ every control token
\* the empty line, every control token, a detail-help request, an invocation
\* and a malformed invocation
FrameLines ==
  { <<>>, <<" ", "\t">>,
    <<"e", "x", "i", "t">>, <<"q", "u", "i", "t">>, <<"q">>,
    <<"h", "e", "l", "p">>, <<"?">>,
    <<"c", "o", "m", "m", "a", "n", "d", "s">>, <<" ", "c", "l", "e", "a", "r">>,
    GetName \o <<" ", "-", "h">>,
    GetName,
    NavName \o <<" ", "{", DQ, "p", DQ, ":", " ", "1", "}">> }

NextFrame ==
  \/ RunnerNext
  \/ Connect
  \/ ConnectFailed
  \/ Connected
  \/ \E L \in SessionToolLists : ListTools(L)
  \/ ListToolsFailed
  \/ Start
  \/ \E l \in FrameLines : Line(l)
  \/ \E p \in pending : ToolResult(p)
  \/ \E p \in pending : ToolResultAfterClose(p)
  \/ \E p \in pending : ToolError(p)
  \/ \E p \in pending : ToolErrorAfterClose(p)
  \/ EndOfInput
  \/ Signal
  \/ CloseDone
  \/ CloseFailed

SpecFrame == Init /\ [][NextFrame]_vars


\* ------------------------------------------------------------ reading the log
Events == {log[i].ev : i \in 1..Len(log)}
Requests == {i \in 1..Len(log) : log[i].ev = "callTool"}
Happened(e) == \E i \in 1..Len(log) : log[i].ev = e
Before(e, i) == \E j \in 1..(i - 1) : log[j].ev = e

\* a submitted line that handleCommand passes to runCommand, and the command
\* name and argument it passes
ControlTokens ==
  { <<"e", "x", "i", "t">>, <<"q", "u", "i", "t">>, <<"q">>, <<"h", "e", "l", "p">>, <<"?">>,
    <<"c", "o", "m", "m", "a", "n", "d", "s">>, <<"c", "l", "e", "a", "r">> }
LineName(l) == Split(Trim(l))[1]
LineArg(l) == IF Len(Split(Trim(l))) > 1 THEN Split(Trim(l))[2] ELSE Undefined
IsInvocation(l) ==
  /\ Trim(l) # <<>>
  /\ Trim(l) \notin ControlTokens
  /\ LineArg(l) # <<"-", "h">>

\* an argument that is absent, empty or whitespace-only
Blank(a) == a \in {Null, Undefined} \/ Trim(a) = <<>>
\* an argument that is not blank and that JSON.parse rejects
Unparseable(a) == ~Blank(a) /\ JSONparse(a) = SyntaxError
\* the lines that are dispatched, by the argument runCommand receives
BlankArgLines ==
  {l \in Lines : IsInvocation(l) /\ (Blank(LineArg(l)) \/ LineArg(l) = <<"{", "}">>)}
UnparseableArgLines == {l \in Lines : IsInvocation(l) /\ Unparseable(LineArg(l))}
\* where the log records the delivery of one of the lines S
Delivered(S) == {i \in 1..Len(log) : log[i].ev = "line" /\ log[i].args \in S}

\* ------------------------------------------------------------------ registry
NamesOf(list) == [i \in 1..Len(list) |-> list[i].name]
TableOf(list) ==
  << NamesOf(list),
     [i \in 1..Len(list) |-> InfoOf(list[i])],
     [i \in 1..Len(list) |-> DetailOf(list[i])] >>

\* C1: the three registry arrays have the same length and the entries at
\* every index were built from the same tool of the list the provider returned.
C1_RegistryAligned ==
  /\ Len(COMMANDS) = Len(COMMANDS_INFO)
  /\ Len(COMMANDS) = Len(COMMANDS_DETAIL)
  /\ \A i \in 1..Len(COMMANDS) :
       /\ i <= Len(tools)
       /\ COMMANDS[i] = tools[i].name
       /\ COMMANDS_INFO[i] = InfoOf(tools[i])
       /\ COMMANDS_DETAIL[i] = DetailOf(tools[i])

\* C2: when discoverTools returns, the registry is the complete table of the
\* list the provider returned, or, if the round failed, what it was before.
C2_DiscoveryAllOrNothing ==
  [][ (ipc = "listing" /\ ipc' # "listing") =>
        IF round' = "ok" THEN registry' = TableOf(tools') ELSE registry' = registry ]_vars

\* C3: after a successful discovery round the registry names are the names of
\* the returned list in order, nothing of an earlier round is left, and an
\* empty list leaves the three arrays empty.
C3_SuccessfulRoundReplaces ==
  round = "ok" =>
    /\ COMMANDS = NamesOf(tools)
    /\ Len(COMMANDS_INFO) = Len(tools)
    /\ Len(COMMANDS_DETAIL) = Len(tools)
    /\ (tools = <<>> => registry = << <<>>, <<>>, <<>> >>)

\* a second round succeeded with fewer tools than an earlier round discovered
C3_Witness ==
  /\ round = "ok" /\ ipc = "connected" /\ rounds = 2
  /\ \E i \in 1..Len(log) : log[i].ev = "discovered" /\ log[i].id > Len(tools)

\* C4: in the one-shot run and in the interactive dispatcher, a blank argument
\* (absent, empty, whitespace-only) and the argument "{}" produce the request
\* with the given command name and the empty arguments object.
C4_BlankArgumentIsEmptyObject ==
  /\ (mode = "oneshot" /\ (Blank(arg) \/ arg = <<"{", "}">>) /\ Happened("connected")) =>
       \E i \in Requests : log[i].name = command /\ log[i].args = EmptyObject
  /\ \A i \in Delivered(BlankArgLines) :
       /\ Len(log) >= i + 2
       /\ log[i + 2] = Ev("callTool", LineName(log[i].args), EmptyObject, log[i].id)

\* a line whose argument is whitespace-only was dispatched with {}
C4_Witness ==
  \E i \in Delivered(BlankArgLines) :
    /\ LineArg(log[i].args) = <<"\t">>
    /\ log[i + 2] = Ev("callTool", GetName, EmptyObject, log[i].id)

\* C5: an argument that is not blank and not JSON is never sent: the one-shot
\* run reports the error and exits with 1 without a request; the interactive
\* dispatcher reports the error and prompts, issues no request for the line
\* and leaves the session and the loop open.
C5_UnparseableNeverSent ==
  /\ (mode = "oneshot" /\ Unparseable(arg)) =>
       /\ Requests = {}
       /\ rpc \in {"start", "connecting", "exited"}
       /\ rpc = "exited" => (exit = <<1>> /\ Happened("error"))
  /\ \A i \in Delivered(UnparseableArgLines) :
       /\ Len(log) >= i + 3
       /\ log[i + 1].ev = "log"
       /\ log[i + 2] = Ev("error", <<>>, <<>>, log[i].id)
       /\ log[i + 3] = Did("prompt")
       /\ \A j \in Requests : log[j].id # log[i].id
       /\ \A p \in pending : p.id # log[i].id
       /\ Len(log) = i + 3 => (client = "live" /\ ~rlClosed /\ exit = <<>>)

\* the interactive dispatcher has just rejected a line
C5_Witness ==
  \E i \in Delivered(UnparseableArgLines) :
    /\ Len(log) = i + 3
    /\ log[i + 2].ev = "error"

\* C6: every request that reaches the provider carries a JSON object as its
\* arguments.
C6_ArgumentsAreObjects ==
  \A i \in Requests : IsJsonObject(log[i].args)

\* the outcome of the steps of a one-shot run
ConnectSucceeded == Happened("connected")
ParseSucceeded == ConnectSucceeded /\ ~Unparseable(arg)
InvokeSucceeded == Happened("result")
CloseSucceeded == Happened("closed")

\* what C7 says apart from the exit status: a run that has not exited is
\* about to start or waits for connect, callTool or close to settle; at most
\* one request, and none after a failed connect or parse; the request does
\* not depend on the flag
C7_OneRequest ==
  /\ rpc # "exited" => (exit = <<>> /\ rpc \in {"start", "connecting", "calling", "closing"})
  /\ rpc = "exited" => exit \in {<<0>>, <<1>>}
  /\ Cardinality(Requests) <= 1
  /\ (rpc = "exited" /\ ~(ConnectSucceeded /\ ParseSucceeded)) => Requests = {}
  /\ \A i \in Requests :
       /\ log[i].name = command
       /\ log[i].args = (IF Blank(arg) THEN EmptyObject ELSE JSONparse(arg))

C8_SuccessOrder ==
  mode = "oneshot" =>
    /\ exit = <<0>> =>
         [i \in 1..Len(log) |-> log[i].ev] =
           <<"log", "connect", "connected", "callTool", "result", "print", "close",
             "closed", "exit">>
    /\ \A i \in 1..Len(log) :
         /\ log[i].ev = "callTool" => Before("connected", i)
         /\ log[i].ev = "close" => (Before("result", i) /\ Before("print", i))

\* a one-shot run ended with status 0
C8_Witness == mode = "oneshot" /\ exit = <<0>>

\* C9: a one-shot run that opened a session has closed it when it exits.
C9_SessionClosedBeforeExit ==
  (mode = "oneshot" /\ rpc = "exited" /\ ConnectSucceeded) => Happened("close")

\* C10: at most one provider invocation of the interactive loop is in flight.
C10_OneInvocationInFlight == Cardinality(pending) <= 1

\* ------------------------------------------------------- the interactive loop
\* the dispatched lines whose argument runCommand can parse, with the command
\* name and the arguments object of the request each of them stands for
ParseableArgLines == {l \in Lines : IsInvocation(l) /\ ~Unparseable(LineArg(l))}
LineNames == [l \in Lines |-> LineName(l)]
LineArgObjs ==
  [l \in ParseableArgLines |->
     IF Blank(LineArg(l)) THEN EmptyObject ELSE JSONparse(LineArg(l))]

\* what a step appends to the log, and whether the step is the delivery of
\* one of the lines S
Appended == SubSeq(log', Len(log) + 1, Len(log'))
Delivers(S) == Len(log') > Len(log) /\ log'[Len(log) + 1].ev = "line" /\ log'[Len(log) + 1].args \in S

\* C11: in interactive mode the requests reach the provider in the order in
\* which their lines were submitted: lines are numbered as they are
\* delivered, the request of a line is issued in the step that handles the
\* line, before any later line is delivered, and it carries a higher line
\* number than every request issued before.
C11_RequestsInLineOrder ==
  [][ mode = "interactive" =>
        /\ Delivers(Lines) => Appended[1].id = nlines + 1 /\ nlines' = nlines + 1
        /\ Delivers(ParseableArgLines) =>
             /\ Len(Appended) = 3
             /\ Appended[3].ev = "callTool"
             /\ Appended[3].id = Appended[1].id
             /\ Appended[3].name = LineNames[Appended[1].args]
        /\ \A k \in 1..Len(Appended) :
             Appended[k].ev = "callTool" =>
               /\ Delivers(ParseableArgLines) /\ k = 3
               /\ \A j \in Requests : log[j].id < Appended[k].id ]_vars

\* two lines were dispatched, the second while the first was still in flight
C11_Witness ==
  /\ Cardinality(pending) = 2
  /\ \E i \in Requests : \E j \in Requests :
       i < j /\ log[i].id = 1 /\ log[j].id = 2 /\ log[i].name # log[j].name

\* ------------------------------------------------------------------ shutdown
\* the lines that are the exit command
ExitLines == {l \in Lines : Trim(l) \in {<<"e", "x", "i", "t">>, <<"q", "u", "i", "t">>, <<"q">>}}
\* where the log records a shutdown trigger: the exit command, end of input
\* or a signal
Triggers ==
  {i \in 1..Len(log) :
     \/ log[i].ev \in {"eof", "signal"}
     \/ (log[i].ev = "line" /\ log[i].args \in ExitLines)}
Count(e) == Cardinality({i \in 1..Len(log) : log[i].ev = e})
\* the step is a shutdown trigger
Triggered ==
  \/ Delivers(ExitLines)
  \/ Len(log') > Len(log) /\ log'[Len(log) + 1].ev \in {"eof", "signal"}

\* C12: whatever the interleaving of exit commands, end of input and signals,
\* client.close() is called at most once, a trigger that finds the interface
\* already closed releases nothing, and no trigger step crashes the process: a
\* crash only ever follows a provider operation that settled (a rejected
\* release, or an answer that arrives after the interface was closed).
C12_ShutdownOnce ==
  [][ mode = "interactive" =>
        /\ \A k \in 1..Len(Appended) :
             /\ Appended[k].ev = "close" =>
                  /\ ~Happened("close")
                  /\ \A m \in 1..Len(Appended) : Appended[m].ev = "close" => m = k
             /\ Appended[k].ev = "crash" =>
                  (k > 1 /\ Appended[k - 1].ev \in {"close-failed", "result", "error"})
        /\ Triggered =>
             /\ rlClosed'
             /\ exit' \in {<<>>, <<0>>}
             /\ Len(Appended) >= 2 /\ Appended[2].ev \in {"close", "exit"}
             /\ rlClosed => (Appended[2].ev = "exit" /\ closePending' = closePending) ]_vars

\* a signal arrived while the exit command was still releasing the session
C12_Witness ==
  /\ mode = "interactive" /\ exit = <<0>> /\ Count("close") = 1
  /\ \E i \in Triggers : \E j \in Triggers :
       /\ i < j /\ log[i].ev = "line" /\ log[j].ev = "signal"
       /\ ~Happened("closed")

\* C13: a signal delivered after the loop started ends the process with
\* status 0 in the same turn, whether or not an invocation is in flight and
\* whether or not the release of the session has completed.
C13_SignalTerminates ==
  \A i \in 1..Len(log) :
    log[i].ev = "signal" =>
      /\ exit = <<0>>
      /\ log[Len(log)] = Did("exit")
      /\ Len(log) <= i + 2
      /\ Len(log) = i + 2 => log[i + 1] = Did("close")

\* a signal ended the process with an invocation in flight and the release of
\* the session not completed
C13_Witness ==
  /\ Happened("signal") /\ exit = <<0>>
  /\ pending # {} /\ closePending /\ ~Happened("closed")

\* C14: on every interactive shutdown path the input is closed, then the
\* release of the session completes, and only then the process exits: the
\* process never exits while the release of a live session is pending.
C14_ReleaseBeforeExit ==
  (mode = "interactive" /\ exit # <<>> /\ (\E i \in Triggers : TRUE)) =>
    /\ rlClosed
    /\ ~closePending
    /\ Happened("close") => \E i \in 1..Len(log) : log[i].ev \in {"closed", "close-failed"}

\* C15: every interactive shutdown ends the process with status 0, also when
\* the session is absent and when releasing the session fails; a failed
\* release is never raised out of the shutdown path.
C15_ShutdownExitsZero ==
  (mode = "interactive" /\ exit # <<>> /\ (\E i \in Triggers : TRUE)) =>
    /\ exit = <<0>>
    /\ ~Happened("crash")

\* ------------------------------------------------------------------ failures
\* where the log records that the handling of a line failed: malformed
\* arguments, or a callTool that rejected
Failures == {i \in 1..Len(log) : log[i].ev = "error" /\ log[i].id > 0}
Placeholder == <<"No commands available (not connected)">>

\* C16: a failed line (malformed arguments, rejected callTool) leaves the
\* session handle, the interface and the process as they were and is
\* followed by exactly one prompt, and a line delivered afterwards is still
\* dispatched; the interface is closed only by an exit command, end of input
\* or a signal, and the process ends only after one of these or on a failed
\* connect.
C16_FailuresKeepTheLoop ==
  [][ mode = "interactive" =>
        /\ ipc \in {"connected", "started"} => (client = "live" /\ client' = client)
        /\ \A k \in 1..Len(Appended) :
             (Appended[k].ev = "error" /\ Appended[k].id > 0) =>
               /\ Len(Appended) = k + 1
               /\ Appended[k + 1] \in {Prompt, Did("crash")}
               /\ Appended[k + 1] = Did("crash") => rlClosed
               /\ Appended[k + 1] = Prompt => (rlClosed' = rlClosed /\ exit' = <<>>)
        /\ Delivers(ParseableArgLines) =>
             Appended[3] = Ev("callTool", LineNames[Appended[1].args],
                              LineArgObjs[Appended[1].args], nlines + 1)
        /\ rlClosed' # rlClosed => Triggered
        /\ exit' # exit =>
             \/ Triggered
             \/ rlClosed
             \/ \E k \in 1..Len(Appended) : Appended[k].ev = "connect-failed" ]_vars

\* the provider rejected the request of the first line, the loop prompted,
\* and the second line was dispatched
C16_Witness ==
  /\ client = "live" /\ ~rlClosed /\ exit = <<>>
  /\ \E i \in Failures :
       /\ log[i].id = 1 /\ log[i + 1] = Prompt
       /\ \E j \in Requests : j < i /\ log[j].id = 1
       /\ \E j \in Requests : j > i /\ log[j].id = 2

\* C17: when the handshake of the interactive connect fails, the process
\* reports the error, prints the remediation checklist and exits with 1, and
\* nothing else happens, before or after: no discovery, no help screen, no
\* prompt, no line, no request.
C17_ConnectFailureIsFatal ==
  [][ /\ exit = <<>>
      /\ (mode = "interactive" /\ \E k \in 1..Len(Appended) : Appended[k].ev = "connect-failed") =>
           /\ log = <<Did("connect")>>
           /\ [k \in 1..Len(Appended) |-> Appended[k].ev] =
                <<"connect-failed", "error", "checklist", "exit">>
           /\ exit' = <<1>>
           /\ round' = "none" /\ nlines' = 0 /\ pending' = {}
           /\ registry' = << <<>>, <<>>, <<>> >> ]_vars

\* the interactive connect failed
C17_Witness ==
  mode = "interactive" /\ Happened("connect-failed") /\ Happened("checklist") /\ exit = <<1>>

\* C18: when listTools() rejects, connect() still returns: a warning is
\* printed and no discovered-count banner, the help screen follows, the
\* registry and the session are left as they were and the process goes on;
\* the lines submitted afterwards are dispatched; every help screen shows the
\* placeholder exactly when the registry is empty, and the names otherwise.
C18_ListFailureNonFatal ==
  [][ /\ (ipc = "listing" /\ ipc' # "listing" /\ round' = "failed") =>
           /\ Len(Appended) = 2
           /\ Appended[1] = Did("warn")
           /\ Appended[2].ev = "help"
           /\ ipc' = "connected" /\ client' = "live" /\ exit' = <<>>
           /\ registry' = registry
      /\ \A k \in 1..Len(Appended) :
           Appended[k].ev = "help" =>
             /\ Appended[k].args = Placeholder <=> COMMANDS' = <<>>
             /\ COMMANDS' # <<>> => Appended[k].args = Join(COMMANDS', <<", ">>)
      /\ (round = "failed" /\ Delivers(ParseableArgLines)) =>
           /\ Appended[3].ev = "callTool"
           /\ Appended[3].args = LineArgObjs[Appended[1].args]
           /\ pending' # pending ]_vars

\* after a failed listTools() the help screen showed the placeholder and a
\* line was dispatched
C18_Witness ==
  /\ round = "failed" /\ COMMANDS = <<>> /\ exit = <<>>
  /\ \E i \in 1..Len(log) : log[i].ev = "help" /\ log[i].args = Placeholder
  /\ Requests # {}

\* ----------------------------------------------------------------- arguments
\* the text of a dispatched line after the command name and the space that
\* follows it
LineRest(l) == SubSeq(Trim(l), Len(LineName(l)) + 2, Len(Trim(l)))
\* the dispatched lines of the form "name J", J the text of a JSON object
ObjectArgLines ==
  {l \in Lines : /\ IsInvocation(l)
                 /\ Len(Trim(l)) > Len(LineName(l)) + 1
                 /\ IsJsonObject(JSONparse(LineRest(l)))}
LineRestObjs == [l \in ObjectArgLines |-> JSONparse(LineRest(l))]

\* C19: a line "name J", J the text of a JSON object with or without spaces,
\* results in the request for name whose arguments are the parse of J.
C19_WholeArgumentPassed ==
  \A i \in Delivered(ObjectArgLines) :
    /\ Len(log) >= i + 2
    /\ log[i + 2] = Ev("callTool", LineNames[log[i].args], LineRestObjs[log[i].args], log[i].id)

\* --------------------------------------------------------------- detail help
\* the lines of the form "name -h"
HelpLines ==
  {l \in Lines : Trim(l) # <<>> /\ Trim(l) \notin ControlTokens /\ LineArg(l) = <<"-", "h">>}

\* C20: a line "name -h" issues no request and leaves the loop open: it
\* prints the rendered help of name when the registry holds name, and a
\* notice with the listing of the available commands when it does not (an
\* empty registry included); the prompt follows in both cases.
C20_DetailHelp ==
  \A i \in Delivered(HelpLines) :
    LET n == LineNames[log[i].args]
        last == IF Includes(COMMANDS, n) THEN i + 2 ELSE i + 3
    IN /\ Len(log) >= last
       /\ IF Includes(COMMANDS, n)
          THEN log[i + 1] = Ev("detail", n, COMMANDS_DETAIL[IndexOf(COMMANDS, n)], 0)
          ELSE log[i + 1] = Ev("unknown", n, <<>>, 0) /\ log[i + 2] = Did("commands")
       /\ log[last] = Prompt
       /\ \A j \in Requests : log[j].id # log[i].id
       /\ \A p \in pending : p.id # log[i].id
       /\ Len(log) = last => (~rlClosed /\ exit = <<>> /\ client = "live")

\* detail help was served for a name the registry holds
C20_Witness ==
  \E i \in Delivered(HelpLines) :
    /\ Len(log) = i + 2
    /\ log[i + 1].ev = "detail" /\ log[i + 1].args = DetailOf(ToolGet)
    /\ log[i + 2] = Prompt

\* ------------------------------------------------------------- rendered help
\* a tool without parameters: no input schema, a schema without a properties
\* map, or an empty properties map
NoParameters(tool) ==
  \/ ~tool.inputSchema.defined
  \/ ~tool.inputSchema.hasProperties
  \/ tool.inputSchema.properties = <<>>

\* C21: the rendered help of every discovered tool without parameters is the
\* Parameters section with the line "No parameters required", followed by the
\* Example section "<name> {}".
C21_NoParametersHelp ==
  \A i \in 1..Len(COMMANDS_DETAIL) :
    (i <= Len(tools) /\ NoParameters(tools[i])) =>
      COMMANDS_DETAIL[i] =
        <<"\nParameters:\n", "No parameters required\n", "\nExample:\n">>
        \o tools[i].name \o <<" ", "{", "}", "\n">>

\* the parameter line and the example member the layout prescribes for a
\* property of a schema with the given required list
LayoutLine(p, required) ==
  <<"- ">> \o p.key
  \o <<" ", (IF \E k \in 1..Len(required) : required[k] = p.key
            THEN "(required)" ELSE "(optional)"), ": ">>
  \o (IF p.type \in {Undefined, <<>>} THEN <<"any">> ELSE p.type)
  \o <<" - ">>
  \o (IF p.description \in {Undefined, <<>>} THEN <<>> ELSE p.description)
  \o <<"\n">>
LayoutMember(p) == <<DQ>> \o p.key \o <<DQ, ":", DQ, "<">> \o p.key \o <<">", DQ>>
LayoutOf(tool) ==
  LET props == tool.inputSchema.properties
  IN <<"\nParameters:\n">>
     \o Join([k \in 1..Len(props) |-> LayoutLine(props[k], tool.inputSchema.required)], <<>>)
     \o <<"\nExample:\n">> \o tool.name \o <<" ", "{">>
     \o Join([k \in 1..Len(props) |-> LayoutMember(props[k])], <<",">>)
     \o <<"}", "\n">>

\* C22: the rendered help of every discovered tool whose schema declares
\* properties has one parameter line per property, in key order, of the form
\* "- <key> (required|optional): <type> - <description>", marked required
\* exactly when the key is in the required list, with the type "any" when none
\* is declared, and the example is the name followed by the JSON object that
\* maps every key to "<key>".
C22_ParametersHelp ==
  \A i \in 1..Len(COMMANDS_DETAIL) :
    (i <= Len(tools) /\ ~NoParameters(tools[i])) =>
      /\ COMMANDS_DETAIL[i] = LayoutOf(tools[i])
      /\ Cardinality({k \in 1..Len(COMMANDS_DETAIL[i]) : COMMANDS_DETAIL[i][k] = "- "})
           = Len(tools[i].inputSchema.properties)

\* the help of a tool with an optional property without a type and a required
\* property was rendered
C22_Witness ==
  /\ round = "ok" /\ tools = <<ToolOpt>> /\ Len(COMMANDS_DETAIL) = 1
  /\ \E k \in 1..Len(COMMANDS_DETAIL[1]) : COMMANDS_DETAIL[1][k] = "(optional)"
  /\ \E k \in 1..Len(COMMANDS_DETAIL[1]) : COMMANDS_DETAIL[1][k] = "(required)"
  /\ \E k \in 1..Len(COMMANDS_DETAIL[1]) : COMMANDS_DETAIL[1][k] = "any"

\* ----------------------------------------------------------- failure reports
\* C23: a failed connect and a failed invocation are reported with the
\* remediation checklist, in the one-shot run and in the interactive loop; a
\* malformed argument is reported with the parse error and without the
\* checklist.
C23_ChecklistReporting ==
  /\ (mode = "oneshot" /\ rpc = "exited") =>
       /\ (Happened("connect-failed") \/ Happened("call-failed")) =>
            (Happened("error") /\ Happened("checklist"))
       /\ (ConnectSucceeded /\ Unparseable(arg)) =>
            (Happened("error") /\ ~Happened("checklist"))
  /\ (mode = "interactive" /\ Happened("connect-failed")) =>
       (Happened("error") /\ Happened("checklist"))
  /\ mode = "interactive" =>
       \A i \in Failures :
         IF \E j \in Requests : log[j].id = log[i].id
         THEN Len(log) > i /\ log[i + 1] = Checklist
         ELSE ~(Len(log) > i /\ log[i + 1] = Checklist)

\* ------------------------------------------------------------ session states
\* C24: in interactive mode a request is issued only while the session is
\* ready: after the connect handshake completed and before any shutdown
\* trigger (an exit command handled, end of input seen, a signal delivered).
C24_InvokeOnlyWhileReady ==
  mode = "interactive" =>
    \A j \in Requests :
      /\ Before("connected", j)
      /\ ~\E i \in Triggers : i < j

\* C25: dispatch does not consult the registry: whatever the registry holds,
\* a line whose first token is not a control token and whose argument parses
\* results in exactly one request, carrying that token as its name; so does a
\* one-shot run whose connect succeeded and whose argument parses.
C25_DispatchIgnoresRegistry ==
  [][ /\ (mode = "interactive" /\ Delivers(ParseableArgLines)) =>
           /\ Cardinality({k \in 1..Len(Appended) : Appended[k].ev = "callTool"}) = 1
           /\ \E k \in 1..Len(Appended) :
                /\ Appended[k].ev = "callTool"
                /\ Appended[k].name = LineNames[Appended[1].args]
                /\ \A j \in Requests : log[j].id # Appended[k].id
           /\ Cardinality(pending') = Cardinality(pending) + 1
      /\ (mode = "oneshot" /\ rpc = "connecting" /\ Appended[1].ev = "connected"
             /\ ~Unparseable(arg)) =>
           /\ Requests = {}
           /\ Cardinality({k \in 1..Len(Appended) : Appended[k].ev = "callTool"}) = 1
           /\ \E k \in 1..Len(Appended) :
                Appended[k].ev = "callTool" /\ Appended[k].name = command ]_vars

\* a command the non-empty registry does not hold was sent to the provider
C25_Witness ==
  /\ mode = "interactive" /\ COMMANDS # <<>>
  /\ \E j \in Requests : ~Includes(COMMANDS, log[j].name)
  /\ \E j \in Requests : Includes(COMMANDS, log[j].name)

\* ------------------------------------------------------------------- frame
\* the lines that are empty or a control token
ControlLines == {l \in FrameLines : Trim(l) = <<>> \/ Trim(l) \in ControlTokens}

\* C26: only discovery changes the registry: the step that ends
\* discoverTools is the only one that changes any of the three arrays; no
\* line of the loop (empty, control token, detail help, invocation) and no
\* step of a one-shot run changes them; and a line that is empty or a
\* control token issues no request.
C26_OnlyDiscoveryChangesRegistry ==
  [][ /\ registry' # registry => (mode = "interactive" /\ ipc = "listing" /\ ipc' = "connected")
      /\ mode = "oneshot" => (registry' = registry /\ registry = << <<>>, <<>>, <<>> >>)
      /\ (Delivers(FrameLines) \/ pending' # pending) => registry' = registry
      /\ Delivers(ControlLines) =>
           /\ pending' = pending
           /\ \A k \in 1..Len(Appended) : Appended[k].ev # "callTool" ]_vars

\* with a discovered registry, the line "?" and an answered invocation left
\* the registry as discovery had built it
C26_Witness ==
  /\ COMMANDS # <<>> /\ registry = TableOf(tools)
  /\ Happened("result")
  /\ \E i \in 1..Len(log) : log[i].ev = "line" /\ log[i].args = <<"?">>

====
